---- MODULE Spec2Model ----
(***************************************************************************)
(* The proxy pool manager of src/modules/proxy_manager: the ProxyManager   *)
(* facade (manager.py), the probe and the bounded sweep (tester.py) and    *)
(* the proxy queries of the persistence layer (db/crud.py).                *)
(*                                                                         *)
(* The Store is the proxies table.  A manager is constructed over a        *)
(* session on that table with _rotation_index = 0.  Coroutines suspend     *)
(* only at an await; the code between two awaits runs as one step.         *)
(***************************************************************************)
EXTENDS Integers, Sequences, FiniteSets, TLC

\* ------------------------------------------------------------------ bounds
MaxId == 2          \* ids the serial primary key hands out in one run
MaxOutcomes == 2    \* outcomes recorded (counter increments) in one run
Hosts == 1 .. MaxId \* ports of the (host, port) pairs offered to add_proxy
MaxLatency == 1     \* largest latency (ms) a successful probe measures
MaxCallers == 2     \* coroutines calling get_next_proxy on one manager
MaxNext == 2        \* get_next_proxy calls in one run
Latencies == 1 .. MaxLatency
MaxManagers == 2    \* ProxyManager instances, each on a session of its own
MaxCalls == 3       \* calls those managers begin in one run
Managers == 1 .. MaxManagers

\* ------------------------------------------------------- program constants
max_failure_threshold == 5   \* ProxyManager.__init__ default
MinSampleSize == 10          \* "if total < 10: return"
ActiveLimit == 100           \* get_active_proxies(self._db, limit=100)
\* list_proxies(self._db, limit=1000): the literal is scaled to the size of
\* the modelled Store, so that a Store larger than the limit is in bounds.
ListLimit == 2
\* settings.proxy_max_concurrent_tasks, set through PROXY_MAX_CONCURRENT_TASKS
\* (default 10); configured below the list limit so that probes queue.
proxy_max_concurrent_tasks == 1
NumEndpoints == 3            \* len(TEST_ENDPOINTS)
Null == 0 - 1                \* SQL NULL / Python None in an integer column

VARIABLES store, next_id, rotation_index, outcomes, last, sweep, rot, sess

vars == <<store, next_id, rotation_index, outcomes, last, sweep, rot, sess>>

\* ------------------------------------------------------------------ helpers
Ids == DOMAIN store

Min(a, b) == IF a < b THEN a ELSE b

RECURSIVE SeqOfSet(_)
\* the ids of a set in ascending order (ORDER BY id)
SeqOfSet(S) ==
    IF S = {} THEN <<>>
    ELSE LET m == CHOOSE x \in S : \A y \in S : x <= y
         IN  <<m>> \o SeqOfSet(S \ {m})

Take(s, n) == SubSeq(s, 1, Min(Len(s), n))

Range(s) == {s[i] : i \in DOMAIN s}

\* ------------------------------------------------------------------ strings
\* A str is the sequence of its characters; None is no str.
None == <<"">>

Digits == <<"0", "1", "2", "3", "4", "5", "6", "7", "8", "9">>

IsDigit(c) == \E k \in DOMAIN Digits : Digits[k] = c

DigitValue(c) == (CHOOSE k \in DOMAIN Digits : Digits[k] = c) - 1

RECURSIVE lstrip(_)
lstrip(s) == IF s # <<>> /\ Head(s) = " " THEN lstrip(Tail(s)) ELSE s

RECURSIVE rstrip(_)
rstrip(s) ==
    IF s # <<>> /\ s[Len(s)] = " "
    THEN rstrip(SubSeq(s, 1, Len(s) - 1))
    ELSE s

\* str.strip(): leading and trailing whitespace removed
strip(s) == rstrip(lstrip(s))

RECURSIVE split(_)
\* str.split(":"): the fields between the colons, one more than colons
split(s) ==
    IF \A i \in DOMAIN s : s[i] # ":" THEN <<s>>
    ELSE LET k == CHOOSE i \in DOMAIN s :
                    s[i] = ":" /\ \A j \in 1 .. (i - 1) : s[j] # ":"
         IN  <<SubSeq(s, 1, k - 1)>> \o split(SubSeq(s, k + 1, Len(s)))

\* the digits of an integer literal: the text after an optional sign
Unsigned(f) == IF f # <<>> /\ Head(f) \in {"-", "+"} THEN Tail(f) ELSE f

\* int(text) does not raise ValueError
IsInteger(f) ==
    Unsigned(f) # <<>> /\ \A i \in DOMAIN Unsigned(f) : IsDigit(Unsigned(f)[i])

RECURSIVE Magnitude(_)
Magnitude(d) ==
    IF d = <<>> THEN 0
    ELSE 10 * Magnitude(SubSeq(d, 1, Len(d) - 1)) + DigitValue(d[Len(d)])

\* int(text) for a text that is an integer literal
int(f) ==
    IF Head(f) = "-" THEN 0 - Magnitude(Unsigned(f)) ELSE Magnitude(Unsigned(f))

\* ------------------------------------------------------------- encryption
\* EncryptionManager over Fernet with the process key: a token is a version
\* header and the ciphertext, which decrypt turns back into the plaintext.
\* The cipher is modelled as a substitution on the characters of the model;
\* the random IV and the timestamp of a token are left out.
PlainChars == <<"h", "g", "u", "p", "q", "e", "x", " ", "-", "+">> \o Digits

CipherChars ==
    <<"H", "G", "U", "P", "Q", "E", "X", "_", "~", "*",
      "a", "b", "c", "d", "f", "i", "j", "k", "l", "m">>

Seal(c) == CipherChars[CHOOSE k \in DOMAIN PlainChars : PlainChars[k] = c]

Unseal(c) == PlainChars[CHOOSE k \in DOMAIN CipherChars : CipherChars[k] = c]

FernetVersion == "gAAAAA"

\* storing the password as it is given
encrypt_identity(plaintext) == plaintext

\* EncryptionManager.encrypt
encrypt(plaintext) ==
    <<FernetVersion>> \o [i \in DOMAIN plaintext |-> Seal(plaintext[i])]

\* EncryptionManager.decrypt of a token encrypt has made
decrypt(ciphertext) ==
    [i \in 1 .. (Len(ciphertext) - 1) |-> Unseal(ciphertext[i + 1])]

\* ------------------------------------------------------------ the Store
\* Proxy row as create_proxy leaves it: is_active as add_proxy passes it,
\* counters 0, latency NULL.
NewProxy(host, port, username, password_encrypted) ==
    [host |-> host, port |-> port, username |-> username,
     password_encrypted |-> password_encrypted, is_active |-> TRUE,
     success_count |-> 0, fail_count |-> 0, latency_ms |-> Null]

\* the lookup by host alone
get_proxy_by_host(st, host, port) == {i \in DOMAIN st : st[i].host = host}

\* crud.get_proxy_by_host_port: the ids holding that (host, port); the
\* unique index idx_proxy_host_port leaves at most one
get_proxy_by_host_port(st, host, port) ==
    {i \in DOMAIN st : st[i].host = host /\ st[i].port = port}

\* crud.create_proxy: insert with the next serial id
create_proxy(st, id, host, port, username, password_encrypted) ==
    [i \in (DOMAIN st) \cup {id} |->
       IF i = id THEN NewProxy(host, port, username, password_encrypted)
       ELSE st[i]]

\* the DELETE without its WHERE clause
delete_proxy_unfiltered(st, id) == <<>>

\* crud.delete_proxy
delete_proxy(st, id) == [i \in (DOMAIN st) \ {id} |-> st[i]]

\* crud.list_proxies(limit), is_active=None: ORDER BY id LIMIT limit
list_proxies(st, limit) == Take(SeqOfSet(DOMAIN st), limit)

\* ORDER BY success_count / NULLIF(success_count + fail_count, 0) DESC,
\*          latency_ms ASC
\* PostgreSQL: NULL sorts first under DESC and last under ASC.  Rows equal on
\* both keys are taken in id order.
RateNull(r) == r.success_count + r.fail_count = 0

RateGreater(a, b) ==
    /\ ~RateNull(a) /\ ~RateNull(b)
    /\ a.success_count * (b.success_count + b.fail_count)
         > b.success_count * (a.success_count + a.fail_count)

RateEqual(a, b) ==
    \/ RateNull(a) /\ RateNull(b)
    \/ /\ ~RateNull(a) /\ ~RateNull(b)
       /\ a.success_count * (b.success_count + b.fail_count)
            = b.success_count * (a.success_count + a.fail_count)

RateBefore(a, b) == (RateNull(a) /\ ~RateNull(b)) \/ RateGreater(a, b)

LatencyBefore(a, b) ==
    a.latency_ms # Null /\ (b.latency_ms = Null \/ a.latency_ms < b.latency_ms)

\* row i precedes row j in the result of get_active_proxies
Before(st, i, j) ==
    \/ RateBefore(st[i], st[j])
    \/ RateEqual(st[i], st[j]) /\ LatencyBefore(st[i], st[j])
    \/ /\ RateEqual(st[i], st[j])
       /\ st[i].latency_ms = st[j].latency_ms
       /\ i < j

RECURSIVE SortBy(_, _)
SortBy(st, S) ==
    IF S = {} THEN <<>>
    ELSE LET m == CHOOSE x \in S : \A y \in S \ {x} : Before(st, x, y)
         IN  <<m>> \o SortBy(st, S \ {m})

\* the query without its WHERE clause
ActiveIdsUnfiltered(st) == DOMAIN st

\* WHERE is_active = true
ActiveIds(st) == {i \in DOMAIN st : st[i].is_active}

\* crud.get_active_proxies(limit)
get_active_proxies(st, limit) == Take(SortBy(st, ActiveIds(st)), limit)

\* crud.update_proxy(proxy_id, is_active=value), the row being present
update_proxy(st, id, value) == [st EXCEPT ![id].is_active = value]

\* the two branches of "if success" exchanged
update_proxy_stats_swapped(st, id, success, latency) ==
    [st EXCEPT
       ![id].success_count = IF success THEN @ ELSE @ + 1,
       ![id].fail_count = IF success THEN @ + 1 ELSE @,
       ![id].latency_ms = IF latency # Null THEN latency ELSE @]

\* crud.update_proxy_stats, the row being present
update_proxy_stats(st, id, success, latency) ==
    [st EXCEPT
       ![id].success_count = IF success THEN @ + 1 ELSE @,
       ![id].fail_count = IF success THEN @ ELSE @ + 1,
       ![id].latency_ms = IF latency # Null THEN latency ELSE @]

\* ------------------------------------------------- FailureThresholdPolicy
\* the comparison as failure_rate >= 0.5
RateReached(r) == 2 * r.fail_count >= r.success_count + r.fail_count

\* failure_rate > 0.5 with failure_rate = fail_count / total
RateExceeded(r) == 2 * r.fail_count > r.success_count + r.fail_count

\* the decision taken on the counters as they were before the failure that
\* is being recorded was counted
ShouldDisableBefore(r) ==
    /\ ~(r.success_count + (r.fail_count - 1) < MinSampleSize)
    /\ r.fail_count - 1 >= max_failure_threshold
    /\ 2 * (r.fail_count - 1) > r.success_count + (r.fail_count - 1)

\* the condition of _check_failure_threshold on the row it is given, which
\* its callers read after update_proxy_stats has committed the outcome
ShouldDisable(r) ==
    /\ ~(r.success_count + r.fail_count < MinSampleSize)
    /\ r.fail_count >= max_failure_threshold
    /\ RateExceeded(r)

\* the policy judging a row once only, on the outcome that completes its
\* minimum sample
check_failure_threshold_once(st, id) ==
    IF ShouldDisable(st[id])
         /\ st[id].success_count + st[id].fail_count = MinSampleSize
    THEN update_proxy(st, id, FALSE)
    ELSE st

\* ProxyManager._check_failure_threshold(proxy)
check_failure_threshold(st, id) ==
    IF ShouldDisable(st[id]) THEN update_proxy(st, id, FALSE) ELSE st

\* ------------------------------------------------------------ the probe
\* what one endpoint attempt (_test_proxy_endpoint) can come to
\*   ok       HTTP 200 and a readable body
\*   http     another HTTP status (a result with success = False)
\*   timeout  asyncio.TimeoutError, raised as ProxyTimeoutError
\*   connect  ClientProxyConnectionError, raised as ProxyConnectionError
\*   client   another aiohttp.ClientError (a result with success = False)
AttemptOutcomes == {"ok", "http", "timeout", "connect", "client"}

NoError == "none"
AllFailed == "All test endpoints failed"

\* what _test_proxy_endpoint says about a failed attempt: the message of the
\* exception it raises or of the failed result it returns
AttemptError(o) ==
    CASE o = "timeout" -> "Connection timeout"
      [] o = "connect" -> "Proxy connection error"
      [] o = "client" -> "Client error"
      [] o = "http" -> "HTTP status"
      [] OTHER -> NoError

\* the first endpoint of the list whose attempt succeeds, 0 if none does
FirstOk(outs) ==
    IF \E i \in DOMAIN outs : outs[i] = "ok"
    THEN CHOOSE i \in DOMAIN outs :
           outs[i] = "ok" /\ \A j \in 1 .. (i - 1) : outs[j] # "ok"
    ELSE 0

\* the attempt returning its results without the latency it measured
test_proxy_endpoint_untimed(id, e, o, lat) ==
    [proxy_id |-> id, success |-> o = "ok", latency_ms |-> Null,
     error_message |-> AttemptError(o), endpoint |-> e]

\* the result tester._test_proxy_endpoint returns for an attempt on endpoint
\* e that came to outcome o after lat ms: an answer, status 200 or not,
\* carries the latency measured, a client error does not (a timeout and a
\* refused proxy connection raise instead of returning)
test_proxy_endpoint(id, e, o, lat) ==
    [proxy_id |-> id, success |-> o = "ok",
     latency_ms |-> IF o \in {"ok", "http"} THEN lat ELSE Null,
     error_message |-> AttemptError(o), endpoint |-> e]

\* the successful result naming endpoints[0], as the failed result does
test_proxy_first_endpoint(id, outs, lat) ==
    IF FirstOk(outs) # 0
    THEN [proxy_id |-> id, success |-> TRUE, latency_ms |-> lat,
          error_message |-> NoError, endpoint |-> 1]
    ELSE [proxy_id |-> id, success |-> FALSE, latency_ms |-> Null,
          error_message |-> AllFailed, endpoint |-> 1]

\* tester.test_proxy: the endpoints in order, the result of the first
\* successful attempt, else the all-endpoints-failed result
test_proxy(id, outs, lat) ==
    IF FirstOk(outs) # 0
    THEN test_proxy_endpoint(id, FirstOk(outs), "ok", lat)
    ELSE [proxy_id |-> id, success |-> FALSE, latency_ms |-> Null,
          error_message |-> AllFailed, endpoint |-> 1]

\* every result a probe can return, for proxy id 0 and for proxy id
ProbeShapes ==
    {test_proxy(0, outs, lat) :
       outs \in [1 .. NumEndpoints -> AttemptOutcomes], lat \in Latencies}

\* the results that differ in what the manager reads of a result, success
\* and latency_ms (the endpoint a result names is neither folded nor kept):
\* those that name the first endpoint
FoldShapes == {r \in ProbeShapes : r.endpoint = 1}

ProbeResults(id) == {[r EXCEPT !.proxy_id = id] : r \in FoldShapes}

\* ------------------------------------------------ folding a probe result
\* the loop body with a successful probe setting is_active = True
FoldResultReactivating(st, r) ==
    IF r.proxy_id \notin DOMAIN st THEN st
    ELSE LET updated == update_proxy_stats(st, r.proxy_id, r.success,
                                           r.latency_ms)
         IN  IF ~r.success
             THEN check_failure_threshold(updated, r.proxy_id)
             ELSE update_proxy(updated, r.proxy_id, TRUE)

\* the body of the "for result in results" loop of test_all_proxies: an
\* update_proxy_stats on a vanished row raises and is logged per result
FoldResult(st, r) ==
    IF r.proxy_id \notin DOMAIN st THEN st
    ELSE LET updated == update_proxy_stats(st, r.proxy_id, r.success,
                                           r.latency_ms)
         IN  IF ~r.success
             THEN check_failure_threshold(updated, r.proxy_id)
             ELSE updated

RECURSIVE FoldResults(_, _)
FoldResults(st, results) ==
    IF results = <<>> THEN st
    ELSE FoldResults(FoldResult(st, Head(results)), Tail(results))

\* mark_proxy_success without its reactivation branch
NoReactivate(st, id) == st

\* mark_proxy_success after update_proxy_stats: "if proxy and not
\* proxy.is_active" set is_active = True
Reactivate(st, id) ==
    IF ~st[id].is_active THEN update_proxy(st, id, TRUE) ELSE st

\* ------------------------------------------------------------ operations
NoResults == <<>>

\* the operation that returned last: its name, its id argument (0 if none),
\* what it returned (an id, 0 for None or False, 1 for True or a successful
\* probe), what it raised, and whether the row of id was active before it
Done(op, id, ret, err, results, was) ==
    [op |-> op, id |-> id, ret |-> ret, err |-> err, was_active |-> was]

WasActive(id) == id \in Ids /\ store[id].is_active

\* The table outlives the manager: a manager is constructed over an empty
\* table or over one that earlier use has filled.  The seeded tables hold one
\* row one outcome short of the minimum sample, its outcomes recorded by
\* mark_proxy_success and mark_proxy_failure and split about evenly; no
\* operation has quarantined it yet.
SeedRows ==
    {[NewProxy(<<"h">>, 1, None, None) EXCEPT
        !.success_count = s, !.fail_count = (MinSampleSize - 1) - s] :
       s \in 3 .. 5}

SeedStores == {<<>>} \cup {<<r>> : r \in SeedRows}

\* no test_all_proxies call is running (before is the table as the running
\* call listed it, counted says that the result of pass k of its folding
\* loop is counted and its policy check is still to come)
NoSweep ==
    [pc |-> "idle", listed |-> {}, proxies |-> <<>>, tasks |-> <<>>,
     permits |-> 0, results |-> <<>>, k |-> 0, counted |-> FALSE,
     before |-> <<>>]

\* a get_next_proxy call that is not running
IdleCaller == [pc |-> "idle", proxies |-> <<>>, seen |-> 0]

\* no get_next_proxy call is running; nothing has been handed out since the
\* set of active proxies last changed (order0 is the rotation order then,
\* stable says that it has not changed since, picks lists for every call
\* since the cursor value it used, the id it returned and the cursor value
\* at its beginning, calls counts the calls that returned a proxy since the
\* manager was constructed)
NoCalls(st) ==
    [callers |-> [c \in 1 .. MaxCallers |-> IdleCaller], picks |-> <<>>,
     order0 |-> get_active_proxies(st, ActiveLimit), stable |-> TRUE,
     calls |-> 0]

\* the session of a manager that has no call in flight: op, id, proxy_str,
\* ret and err are those of the call it returned from last, proxy is the row
\* object its session has loaded for the call in flight
IdleSession ==
    [pc |-> "idle", op |-> "none", id |-> 0, success |-> FALSE,
     proxy |-> <<>>, proxy_str |-> <<>>, ret |-> 0, err |-> NoError]

\* the managers on sessions of their own before any of them has begun a
\* call (recorded counts, for every id, the outcomes the calls that have
\* returned were given to record)
IdleSessions ==
    [of |-> [m \in Managers |-> IdleSession],
     recorded |-> [id \in 1 .. MaxId |->
                    [success_count |-> 0, fail_count |-> 0]],
     calls |-> 0]

\* no manager on another session has been constructed
NoSessions == <<>>

Init ==
    /\ store \in SeedStores
    /\ next_id = Len(store) + 1
    /\ rotation_index = 0
    /\ outcomes = 0
    /\ last = Done("init", 0, 0, NoError, NoResults, FALSE)
    /\ sweep = NoSweep
    /\ rot = NoCalls(store)
    /\ sess = NoSessions

\* "raise InvalidProxyFormat(proxy_str, reason)"
Invalid(reason) ==
    [error |-> "InvalidProxyFormat", reason |-> reason, host |-> <<>>,
     port |-> 0, username |-> None, password |-> None]

\* "parts[i].strip() if parts[i].strip() else None"
OrNone(field) == IF strip(field) # <<>> THEN strip(field) ELSE None

\* the parsing and validation of add_proxy, its checks in the order of the
\* code: what it raises, or the host, port and credentials it goes on with
ParseProxyStr(proxy_str) ==
    LET parts == split(strip(proxy_str)) IN
    IF Len(parts) < 2 THEN Invalid("Minimum format is HOST:PORT")
    ELSE IF ~IsInteger(strip(parts[2]))
    THEN Invalid("Port must be a valid integer")
    ELSE IF Len(parts) = 3
    THEN Invalid("If username provided, password is also required")
    ELSE IF strip(parts[1]) = <<>> THEN Invalid("Host cannot be empty")
    ELSE IF int(strip(parts[2])) < 1 \/ int(strip(parts[2])) > 65535
    THEN Invalid("Port must be between 1 and 65535")
    ELSE [error |-> NoError, reason |-> NoError, host |-> strip(parts[1]),
          port |-> int(strip(parts[2])),
          username |-> IF Len(parts) >= 4 THEN OrNone(parts[3]) ELSE None,
          password |-> IF Len(parts) >= 4 THEN OrNone(parts[4]) ELSE None]

\* the strings add_proxy is called with: one to MaxFields colon-separated
\* fields, well-formed or not
MaxFields == 5      \* colon-separated fields of a proxy string

HostFields == {<<>>, <<" ", "h">>}

PortFields ==
    {<<"x">>, <<"0">>, <<"1", " ">>, <<"6", "5", "5", "3", "5">>,
     <<"6", "5", "5", "3", "6">>}

UserFields == {<<>>, <<"u">>}

PassFields == {<<" ">>, <<"p">>, <<"q">>}

ExtraFields == {<<"e">>}

\* what the k-th field of an offered string can be
FieldsAt(k) ==
    CASE k = 1 -> HostFields
      [] k = 2 -> PortFields
      [] k = 3 -> UserFields
      [] k = 4 -> PassFields
      [] OTHER -> ExtraFields

RECURSIVE StringsOf(_)
\* the offered strings of n fields
StringsOf(n) ==
    IF n = 1 THEN FieldsAt(1)
    ELSE {s \o <<":">> \o f : s \in StringsOf(n - 1), f \in FieldsAt(n)}

\* the strings offered to add_proxy on any input
ProxyStrings == UNION {StringsOf(n) : n \in 1 .. MaxFields}

\* the string "h:<port>" for a port of one digit
HostPort(port) == <<"h", ":", Digits[port + 1]>>

\* ParseProxyStr on the strings the specifications offer, computed once
ParseOf ==
    [s \in ProxyStrings \cup {HostPort(h) : h \in Hosts} |->
       ParseProxyStr(s)]

\* "if password: password_encrypted = encryption_manager.encrypt(password)"
EncryptedOrNone(password) ==
    IF password # None THEN encrypt(password) ELSE None

\* ProxyManager._proxy_to_config: the row with its password decrypted
proxy_to_config(st, id) ==
    [id |-> id, host |-> st[id].host, port |-> st[id].port,
     username |-> st[id].username,
     password |-> IF st[id].password_encrypted # None
                  THEN decrypt(st[id].password_encrypted)
                  ELSE None,
     latency_ms |-> st[id].latency_ms, is_active |-> st[id].is_active]

\* add_proxy(proxy_str) has returned the config of row ret or raised err
AddDone(proxy_str, ret, err) ==
    Done("add", 0, ret, err, NoResults, FALSE) @@ [proxy_str |-> proxy_str]

\* ProxyManager.add_proxy
add_proxy(proxy_str) ==
    LET parsed == ParseOf[proxy_str]
        existing == get_proxy_by_host_port(store, parsed.host, parsed.port)
    IN
    IF parsed.error # NoError
    THEN /\ last' = AddDone(proxy_str, 0, parsed.error)
         /\ UNCHANGED <<store, next_id, rotation_index, outcomes>>
    ELSE IF existing # {}
    THEN /\ last' = AddDone(proxy_str, CHOOSE i \in existing : TRUE, NoError)
         /\ UNCHANGED <<store, next_id, rotation_index, outcomes>>
    ELSE /\ next_id <= MaxId
         /\ store' = create_proxy(store, next_id, parsed.host, parsed.port,
                                  parsed.username,
                                  EncryptedOrNone(parsed.password))
         /\ next_id' = next_id + 1
         /\ last' = AddDone(proxy_str, next_id, NoError)
         /\ UNCHANGED <<rotation_index, outcomes>>

\* ProxyManager.remove_proxy
remove_proxy(id) ==
    /\ store' = IF id \in Ids THEN delete_proxy(store, id) ELSE store
    /\ last' = Done("remove", id, IF id \in Ids THEN 1 ELSE 0, NoError,
                    NoResults, WasActive(id))
    /\ UNCHANGED <<next_id, rotation_index, outcomes>>

\* ProxyManager.get_next_proxy; ret = 0 is None
get_next_proxy ==
    LET proxies == get_active_proxies(store, ActiveLimit) IN
    IF proxies = <<>>
    THEN /\ last' = Done("next", 0, 0, NoError, NoResults, FALSE)
         /\ UNCHANGED <<store, next_id, rotation_index, outcomes>>
    ELSE /\ last' = Done("next", 0,
                         proxies[(rotation_index % Len(proxies)) + 1],
                         NoError, NoResults, FALSE)
         /\ rotation_index' = (rotation_index + 1) % Len(proxies)
         /\ UNCHANGED <<store, next_id, outcomes>>

\* ProxyManager.test_proxy(proxy_id) with the probe returning result
manager_test_proxy(id, result) ==
    IF id \notin Ids
    THEN /\ last' = Done("test", id, 0, "RecordNotFoundError", NoResults,
                         FALSE)
         /\ UNCHANGED <<store, next_id, rotation_index, outcomes>>
    ELSE /\ outcomes < MaxOutcomes
         /\ store' = FoldResult(store, result)
         /\ outcomes' = outcomes + 1
         /\ last' = Done("test", id, IF result.success THEN 1 ELSE 0, NoError,
                         <<result>>, WasActive(id))
         /\ UNCHANGED <<next_id, rotation_index>>

\* ProxyManager.test_all_proxies with the sweep returning results, one per
\* listed proxy and in list order (asyncio.gather keeps the order)
test_all_proxies(results) ==
    /\ outcomes + Len(results) <= MaxOutcomes
    /\ store' = FoldResults(store, results)
    /\ outcomes' = outcomes + Len(results)
    /\ last' = Done("testAll", 0, 0, NoError, results, FALSE)
    /\ UNCHANGED <<next_id, rotation_index>>

\* the result lists a sweep over the listed proxies can return
SweepResults(proxies) ==
    {[k \in DOMAIN proxies |-> [shapes[k] EXCEPT !.proxy_id = proxies[k]]] :
       shapes \in [DOMAIN proxies -> FoldShapes]}

\* ProxyManager.get_proxy_stats: reads one row and returns its statistics
\* (ret is the number of its recorded outcomes); an unknown id raises
get_proxy_stats(id) ==
    /\ last' = IF id \notin Ids
               THEN Done("stats", id, 0, "RecordNotFoundError", NoResults,
                         FALSE)
               ELSE Done("stats", id,
                         store[id].success_count + store[id].fail_count,
                         NoError, NoResults, WasActive(id))
    /\ UNCHANGED <<store, next_id, rotation_index, outcomes>>

\* ProxyManager.mark_proxy_success: an unknown id raises inside the try
\* and is logged, nothing is raised to the caller
mark_proxy_success(id) ==
    IF id \notin Ids
    THEN /\ last' = Done("markSuccess", id, 0, NoError, NoResults, FALSE)
         /\ UNCHANGED <<store, next_id, rotation_index, outcomes>>
    ELSE /\ outcomes < MaxOutcomes
         /\ store' = Reactivate(update_proxy_stats(store, id, TRUE, Null), id)
         /\ outcomes' = outcomes + 1
         /\ last' = Done("markSuccess", id, 0, NoError, NoResults,
                         WasActive(id))
         /\ UNCHANGED <<next_id, rotation_index>>

\* mark_proxy_failure letting the RecordNotFoundError of
\* update_proxy_stats through to its caller
mark_proxy_failure_raising(id) ==
    IF id \notin Ids
    THEN /\ last' = Done("markFailure", id, 0, "RecordNotFoundError",
                         NoResults, FALSE)
         /\ UNCHANGED <<store, next_id, rotation_index, outcomes>>
    ELSE /\ outcomes < MaxOutcomes
         /\ store' = check_failure_threshold(
                        update_proxy_stats(store, id, FALSE, Null), id)
         /\ outcomes' = outcomes + 1
         /\ last' = Done("markFailure", id, 0, NoError, NoResults,
                         WasActive(id))
         /\ UNCHANGED <<next_id, rotation_index>>

\* ProxyManager.mark_proxy_failure: as mark_proxy_success, an unknown id is
\* logged and nothing is raised to the caller
mark_proxy_failure(id) ==
    IF id \notin Ids
    THEN /\ last' = Done("markFailure", id, 0, NoError, NoResults, FALSE)
         /\ UNCHANGED <<store, next_id, rotation_index, outcomes>>
    ELSE /\ outcomes < MaxOutcomes
         /\ store' = check_failure_threshold(
                        update_proxy_stats(store, id, FALSE, Null), id)
         /\ outcomes' = outcomes + 1
         /\ last' = Done("markFailure", id, 0, NoError, NoResults,
                         WasActive(id))
         /\ UNCHANGED <<next_id, rotation_index>>

AnyId == 1 .. MaxId

Add == UNCHANGED <<sweep, rot, sess>> /\ \E h \in Hosts : add_proxy(HostPort(h))
Remove == UNCHANGED <<sweep, rot, sess>> /\ \E id \in AnyId : remove_proxy(id)
NextProxy == UNCHANGED <<sweep, rot, sess>> /\ get_next_proxy
Test ==
    /\ UNCHANGED <<sweep, rot, sess>>
    /\ \E id \in AnyId : \E r \in ProbeResults(id) : manager_test_proxy(id, r)
TestAll ==
    /\ UNCHANGED <<sweep, rot, sess>>
    /\ \E rs \in SweepResults(list_proxies(store, ListLimit)) :
         test_all_proxies(rs)
Stats == UNCHANGED <<sweep, rot, sess>> /\ \E id \in AnyId : get_proxy_stats(id)
MarkSuccess == UNCHANGED <<sweep, rot, sess>> /\ \E id \in AnyId : mark_proxy_success(id)
MarkFailure == UNCHANGED <<sweep, rot, sess>> /\ \E id \in AnyId : mark_proxy_failure(id)

Next ==
    \/ Add
    \/ Remove
    \/ NextProxy
    \/ Test
    \/ TestAll
    \/ Stats
    \/ MarkSuccess
    \/ MarkFailure

Spec == Init /\ [][Next]_vars

\* ------------------------------------------- test_all_proxies step by step
\* The same handler with its suspension points: the listing, the probes of
\* test_multiple_proxies behind the semaphore, one endpoint attempt at a
\* time, and the folding loop, one result at a time.  Other callers of the
\* manager run in between.
MaxRows == 3        \* rows of the table a sweep starts from

\* tables of n untouched rows, as add_proxy leaves them
FreshStore(n) == [i \in 1 .. n |-> NewProxy(<<"h">>, i, None, None)]

InitSweep ==
    /\ store \in {FreshStore(n) : n \in 0 .. MaxRows} \cup SeedStores
    /\ next_id = Len(store) + 1
    /\ rotation_index = 0
    /\ outcomes = 0
    /\ last = Done("init", 0, 0, NoError, NoResults, FALSE)
    /\ sweep = NoSweep
    /\ rot = NoCalls(store)
    /\ sess = NoSessions

\* a coroutine test_with_semaphore(proxy) that gather has created
NewTask == [pc |-> "queued", tried |-> <<>>, result |-> <<>>]

\* proxies = await crud.list_proxies(limit=...); "if not proxies: return []";
\* else the semaphore and the gathered tasks of test_multiple_proxies
SweepStart ==
    /\ sweep.pc = "idle"
    /\ LET proxies == list_proxies(store, ListLimit) IN
       IF proxies = <<>>
       THEN /\ sweep' = [NoSweep EXCEPT !.listed = DOMAIN store]
            /\ last' = Done("testAll", 0, 0, NoError, NoResults, FALSE)
            /\ UNCHANGED outcomes
       ELSE /\ outcomes + Len(proxies) <= MaxOutcomes
            /\ outcomes' = outcomes + Len(proxies)
            /\ sweep' = [pc |-> "probing", listed |-> DOMAIN store,
                         proxies |-> proxies,
                         tasks |-> [t \in DOMAIN proxies |-> NewTask],
                         permits |-> proxy_max_concurrent_tasks,
                         results |-> <<>>, k |-> 0, counted |-> FALSE,
                         before |-> store]
            /\ UNCHANGED last
    /\ UNCHANGED <<store, next_id, rotation_index, rot, sess>>

\* the gate admits without a permit
GateOpen(sw) == TRUE

\* asyncio.Semaphore: acquire returns at once while the value is positive
GateFree(sw) == sw.permits > 0

\* "async with semaphore:" entered by a queued task
Acquire(t) ==
    /\ sweep.pc = "probing"
    /\ t \in DOMAIN sweep.tasks
    /\ sweep.tasks[t].pc = "queued"
    /\ GateFree(sweep)
    /\ sweep' = [sweep EXCEPT !.tasks[t].pc = "running",
                              !.permits = @ - 1]
    /\ UNCHANGED <<store, next_id, rotation_index, outcomes, last, rot, sess>>

\* the attempts of a probe that has ended, padded to the endpoint list
Padded(tried) ==
    [e \in 1 .. NumEndpoints |-> IF e <= Len(tried) THEN tried[e] ELSE "ok"]

\* the loop leaving also on a result with another HTTP status
ProbeEndsOnStatus(tried) ==
    \/ tried[Len(tried)] \in {"ok", "http"}
    \/ Len(tried) = NumEndpoints

\* "for endpoint in endpoints" after the attempts tried: the loop is left by
\* "if result.success: return result" or when the list is exhausted; a
\* failed result and a raised exception both go on to the next endpoint
ProbeEnds(tried) ==
    \/ tried[Len(tried)] = "ok"
    \/ Len(tried) = NumEndpoints

\* the probe keeping its permit when it ends without a success
AttemptLeaking(t, o, lat) ==
    /\ sweep.pc = "probing"
    /\ t \in DOMAIN sweep.tasks
    /\ sweep.tasks[t].pc = "running"
    /\ LET tried == Append(sweep.tasks[t].tried, o) IN
       IF ProbeEnds(tried)
       THEN sweep' = [sweep EXCEPT
                        !.tasks[t] = [pc |-> "done", tried |-> tried,
                                      result |-> <<test_proxy(sweep.proxies[t],
                                                     Padded(tried), lat)>>],
                        !.permits = IF o = "ok" THEN @ + 1 ELSE @]
       ELSE sweep' = [sweep EXCEPT !.tasks[t].tried = tried]
    /\ UNCHANGED <<store, next_id, rotation_index, outcomes, last, rot, sess>>

\* one "await _test_proxy_endpoint" of a running task coming to outcome o;
\* test_proxy returns on the first success or after the last endpoint, and
\* leaving the "async with" block releases the permit
Attempt(t, o, lat) ==
    /\ sweep.pc = "probing"
    /\ t \in DOMAIN sweep.tasks
    /\ sweep.tasks[t].pc = "running"
    /\ LET tried == Append(sweep.tasks[t].tried, o) IN
       IF ProbeEnds(tried)
       THEN sweep' = [sweep EXCEPT
                        !.tasks[t] = [pc |-> "done", tried |-> tried,
                                      result |-> <<test_proxy(sweep.proxies[t],
                                                     Padded(tried), lat)>>],
                        !.permits = @ + 1]
       ELSE sweep' = [sweep EXCEPT !.tasks[t].tried = tried]
    /\ UNCHANGED <<store, next_id, rotation_index, outcomes, last, rot, sess>>

\* asyncio.gather returns the results in the order of the tasks once every
\* task is done; the tasks are gone then
Gathered ==
    /\ sweep.pc = "probing"
    /\ \A t \in DOMAIN sweep.tasks : sweep.tasks[t].pc = "done"
    /\ sweep' = [sweep EXCEPT
                   !.pc = "folding",
                   !.tasks = <<>>,
                   !.results = [t \in DOMAIN sweep.tasks |->
                                  sweep.tasks[t].result[1]],
                   !.k = 1]
    /\ UNCHANGED <<store, next_id, rotation_index, outcomes, last, rot, sess>>

\* the folding loop after pass k: the next pass, or "return results" after
\* the last one
FoldNext ==
    IF sweep.k = Len(sweep.results)
    THEN /\ sweep' = [sweep EXCEPT !.pc = "idle", !.counted = FALSE]
         /\ last' = Done("testAll", 0, 0, NoError, NoResults, FALSE)
    ELSE /\ sweep' = [sweep EXCEPT !.k = @ + 1, !.counted = FALSE]
         /\ UNCHANGED last

\* the pass without its "try ... except Exception": the RecordNotFoundError
\* of a vanished row leaves the loop and is raised as ProxyException
FoldStatsUncontained ==
    /\ sweep.pc = "folding"
    /\ ~sweep.counted
    /\ LET r == sweep.results[sweep.k] IN
       IF r.proxy_id \notin DOMAIN store
       THEN /\ sweep' = [sweep EXCEPT !.pc = "idle"]
            /\ last' = Done("testAll", 0, 0, "ProxyException", NoResults,
                            FALSE)
            /\ UNCHANGED store
       ELSE /\ store' = update_proxy_stats(store, r.proxy_id, r.success,
                                           r.latency_ms)
            /\ IF r.success
               THEN FoldNext
               ELSE sweep' = [sweep EXCEPT !.counted = TRUE] /\ UNCHANGED last
    /\ UNCHANGED <<next_id, rotation_index, outcomes, rot, sess>>

\* pass k of the "for result in results" loop up to the return of
\* "await crud.update_proxy_stats": on a vanished row it raises, which the
\* pass logs; a successful result ends the pass
FoldStats ==
    /\ sweep.pc = "folding"
    /\ ~sweep.counted
    /\ LET r == sweep.results[sweep.k] IN
       IF r.proxy_id \notin DOMAIN store
       THEN UNCHANGED store /\ FoldNext
       ELSE /\ store' = update_proxy_stats(store, r.proxy_id, r.success,
                                           r.latency_ms)
            /\ IF r.success
               THEN FoldNext
               ELSE sweep' = [sweep EXCEPT !.counted = TRUE] /\ UNCHANGED last
    /\ UNCHANGED <<next_id, rotation_index, outcomes, rot, sess>>

\* the rest of pass k for a failed result: "proxy = await crud.get_proxy",
\* "if proxy: await self._check_failure_threshold(proxy)"
FoldPolicy ==
    /\ sweep.pc = "folding"
    /\ sweep.counted
    /\ LET id == sweep.results[sweep.k].proxy_id IN
       store' = IF id \in DOMAIN store
                THEN check_failure_threshold(store, id)
                ELSE store
    /\ FoldNext
    /\ UNCHANGED <<next_id, rotation_index, outcomes, rot, sess>>

\* the caller cancels the running test_all_proxies: CancelledError is raised
\* at the await the call is suspended in, which no "except Exception"
\* catches; gather cancels the probes, which leave their "async with"
Cancel ==
    /\ sweep.pc \in {"probing", "folding"}
    /\ sweep' = [sweep EXCEPT !.pc = "cancelled", !.tasks = <<>>,
                              !.permits = 0]
    /\ last' = Done("testAll", 0, 0, "CancelledError", NoResults, FALSE)
    /\ UNCHANGED <<store, next_id, rotation_index, outcomes, rot, sess>>

\* another caller removes one of the records a sweep of the full table lists
SweepRemove ==
    /\ UNCHANGED <<sweep, rot, sess>>
    /\ \E id \in 1 .. ListLimit : remove_proxy(id)

AcquireGate == \E t \in 1 .. ListLimit : Acquire(t)
AttemptEndpoint ==
    \E t \in 1 .. ListLimit : \E o \in AttemptOutcomes : \E lat \in Latencies :
       Attempt(t, o, lat)

NextSweep ==
    \/ SweepStart
    \/ AcquireGate
    \/ AttemptEndpoint
    \/ Gathered
    \/ FoldStats
    \/ FoldPolicy
    \/ Cancel
    \/ SweepRemove

SpecSweep == InitSweep /\ [][NextSweep]_vars

\* The sweep under the scheduling of the event loop, on a table that no
\* other caller changes meanwhile: a coroutine that can go on does go on
\* (the semaphore wakes a waiter as soon as a permit is free, every endpoint
\* attempt ends, with aiohttp's timeout at the latest, and a database call
\* returns).  Beginning a sweep and cancelling it are up to the caller.
InitSweepFair ==
    /\ store \in {FreshStore(n) : n \in 0 .. ListLimit}
    /\ next_id = Len(store) + 1
    /\ rotation_index = 0
    /\ outcomes = 0
    /\ last = Done("init", 0, 0, NoError, NoResults, FALSE)
    /\ sweep = NoSweep
    /\ rot = NoCalls(store)
    /\ sess = NoSessions

NextSweepFair ==
    \/ SweepStart
    \/ AcquireGate
    \/ AttemptEndpoint
    \/ Gathered
    \/ FoldStats
    \/ FoldPolicy
    \/ Cancel

SpecSweepFair ==
    /\ InitSweepFair
    /\ [][NextSweepFair]_vars
    /\ WF_vars(AcquireGate)
    /\ WF_vars(AttemptEndpoint)
    /\ WF_vars(Gathered)
    /\ WF_vars(FoldStats)
    /\ WF_vars(FoldPolicy)

\* --------------------------------------------- get_next_proxy step by step
\* The same handler with its suspension point: the call awaits the query
\* and, resumed, selects and advances the index without another await.
\* Several coroutines call it on one manager; probes change the counters
\* and latencies of the table at any time, rows are removed between calls.
InitRotate ==
    /\ store \in {FreshStore(n) : n \in 1 .. MaxId}
    /\ next_id = Len(store) + 1
    /\ rotation_index = 0
    /\ outcomes = 0
    /\ last = Done("init", 0, 0, NoError, NoResults, FALSE)
    /\ sweep = NoSweep
    /\ rot = NoCalls(store)
    /\ sess = NoSessions

Running == {c \in 1 .. MaxCallers : rot.callers[c].pc # "idle"}

\* "proxies = await crud.get_active_proxies(self._db, limit=100)"
NextFetch(c) ==
    /\ rot.callers[c].pc = "idle"
    /\ rot.calls + Cardinality(Running) < MaxNext
    /\ rot' = [rot EXCEPT
                 !.callers[c] = [pc |-> "fetched",
                                 proxies |-> get_active_proxies(store,
                                                                ActiveLimit),
                                 seen |-> rotation_index]]
    /\ UNCHANGED <<store, next_id, rotation_index, outcomes, last, sweep, sess>>

\* the index as it was when the call began
StaleIndex(c) == rot.callers[c].seen

\* self._rotation_index as the resumed call reads it
ReadIndex(c) == rotation_index

\* the rest of get_next_proxy, from the resumption to the return
NextSelect(c) ==
    /\ rot.callers[c].pc = "fetched"
    /\ LET proxies == rot.callers[c].proxies IN
       IF proxies = <<>>
       THEN /\ last' = Done("next", 0, 0, NoError, NoResults, FALSE)
            /\ rot' = [rot EXCEPT !.callers[c] = IdleCaller]
            /\ UNCHANGED rotation_index
       ELSE LET proxy == proxies[(ReadIndex(c) % Len(proxies)) + 1] IN
            /\ rotation_index' = (ReadIndex(c) + 1) % Len(proxies)
            /\ last' = Done("next", 0, proxy, NoError, NoResults, FALSE)
            /\ rot' = [rot EXCEPT
                         !.callers[c] = IdleCaller,
                         !.picks = Append(@, [idx |-> ReadIndex(c),
                                              id |-> proxy,
                                              seen |-> rot.callers[c].seen]),
                         !.calls = @ + 1]
    /\ UNCHANGED <<store, next_id, outcomes, sweep, sess>>

\* the rotation bookkeeping after another operation has changed the table
Reordered ==
    IF ActiveIds(store') # ActiveIds(store)
    THEN rot' = [NoCalls(store') EXCEPT !.callers = rot.callers,
                                        !.calls = rot.calls]
    ELSE rot' = [rot EXCEPT
                   !.stable = @ /\ (get_active_proxies(store', ActiveLimit)
                                     = get_active_proxies(store, ActiveLimit))]

Fetch == \E c \in 1 .. MaxCallers : NextFetch(c)
Select == \E c \in 1 .. MaxCallers : NextSelect(c)
RotTest ==
    /\ \E id \in AnyId : \E r \in ProbeResults(id) : manager_test_proxy(id, r)
    /\ Reordered
    /\ UNCHANGED <<sweep, sess>>
RotRemove ==
    /\ Running = {}
    /\ \E id \in AnyId : remove_proxy(id)
    /\ Reordered
    /\ UNCHANGED <<sweep, sess>>

NextRotate ==
    \/ Fetch
    \/ Select
    \/ RotTest
    \/ RotRemove

SpecRotate == InitRotate /\ [][NextRotate]_vars

\* ------------------------------------------------ add_proxy on any string
\* add_proxy called with any of ProxyStrings on a table that is empty or
\* holds a proxy with credentials and a history.
\* the row add_proxy("h:1:u:p") created, after ten outcomes have been
\* recorded for it and the policy has quarantined it
UsedRow ==
    [NewProxy(<<"h">>, 1, <<"u">>, encrypt(<<"p">>)) EXCEPT
       !.is_active = FALSE, !.success_count = 4, !.fail_count = 6,
       !.latency_ms = MaxLatency]

InitAdd ==
    /\ store \in {<<>>, <<UsedRow>>}
    /\ next_id = Len(store) + 1
    /\ rotation_index = 0
    /\ outcomes = 0
    /\ last = Done("init", 0, 0, NoError, NoResults, FALSE)
    /\ sweep = NoSweep
    /\ rot = NoCalls(store)
    /\ sess = NoSessions

AddAny == UNCHANGED <<sweep, rot, sess>> /\ \E s \in ProxyStrings : add_proxy(s)

NextAdd == AddAny

SpecAdd == InitAdd /\ [][NextAdd]_vars

\* ------------------------------------------- the policy on known histories
\* One manager working on a table of one row whose history is known from
\* its counters: a row that has only failed so far, a row one failure away
\* from the quarantine condition, and a row the policy has quarantined.

\* a row whose f recorded outcomes were all failures
FailedRow(f) == [NewProxy(<<"h">>, 1, None, None) EXCEPT !.fail_count = f]

\* a row with s successes and f failures recorded, active or not
UsedProxy(s, f, active) ==
    [NewProxy(<<"h">>, 1, None, None) EXCEPT
       !.success_count = s, !.fail_count = f, !.is_active = active]

PolicyRows ==
    {FailedRow(max_failure_threshold - 1),
     UsedProxy(4, MinSampleSize - 5, TRUE),
     UsedProxy(3, MinSampleSize - 3, FALSE)}

InitPolicy ==
    /\ store \in {<<r>> : r \in PolicyRows}
    /\ next_id = Len(store) + 1
    /\ rotation_index = 0
    /\ outcomes = 0
    /\ last = Done("init", 0, 0, NoError, NoResults, FALSE)
    /\ sweep = NoSweep
    /\ rot = NoCalls(store)
    /\ sess = NoSessions

NextPolicy ==
    \/ Test
    \/ TestAll
    \/ MarkSuccess
    \/ MarkFailure

SpecPolicy == InitPolicy /\ [][NextPolicy]_vars

\* --------------------------------------- managers on sessions of their own
\* Several ProxyManager instances, each constructed on an AsyncSession of its
\* own (one per API request, one per worker task), work on the same table:
\* mark_proxy_success, mark_proxy_failure and add_proxy from one await to the
\* next.  A session reads the committed table and writes it at its commit.

InitSessions ==
    /\ store = FreshStore(1)
    /\ next_id = Len(store) + 1
    /\ rotation_index = 0
    /\ outcomes = 0
    /\ last = Done("init", 0, 0, NoError, NoResults, FALSE)
    /\ sweep = NoSweep
    /\ rot = NoCalls(store)
    /\ sess = IdleSessions

AllIdle == \A m \in Managers : sess.of[m].pc = "idle"

MarkOp(success) == IF success THEN "markSuccess" ELSE "markFailure"

\* mark_proxy_success / mark_proxy_failure of manager m up to the return of
\* "proxy = await get_proxy(db, proxy_id)" in crud.update_proxy_stats: the
\* session has loaded the row as committed
StatsLoad(m, id, success) ==
    /\ sess.of[m].pc = "idle"
    /\ sess.calls < MaxCalls
    /\ id \in Ids
    /\ sess' = [sess EXCEPT
                  !.calls = @ + 1,
                  !.of[m] = [IdleSession EXCEPT
                               !.pc = "loaded", !.op = MarkOp(success),
                               !.id = id, !.success = success,
                               !.proxy = <<store[id]>>]]
    /\ UNCHANGED <<store, next_id, rotation_index, outcomes, last, sweep, rot>>

\* the rest of the call: "proxy.success_count += 1" or "proxy.fail_count +=
\* 1" on the object loaded, "await db.commit()", which writes the column
\* that changed, then the reactivation or the policy on the row re-read
StatsCommit(m) ==
    /\ sess.of[m].pc = "loaded"
    /\ LET c == sess.of[m]
           loaded == c.proxy[1]
           written ==
             IF c.success
             THEN [store EXCEPT ![c.id].success_count =
                                   loaded.success_count + 1]
             ELSE [store EXCEPT ![c.id].fail_count = loaded.fail_count + 1]
       IN  /\ store' = IF c.success
                       THEN Reactivate(written, c.id)
                       ELSE check_failure_threshold(written, c.id)
           /\ sess' = [sess EXCEPT
                         !.of[m] = [IdleSession EXCEPT !.op = c.op,
                                                       !.id = c.id],
                         !.recorded[c.id] =
                            IF c.success
                            THEN [@ EXCEPT !.success_count = @ + 1]
                            ELSE [@ EXCEPT !.fail_count = @ + 1]]
           /\ last' = Done(c.op, c.id, 0, NoError, NoResults,
                           store[c.id].is_active)
    /\ outcomes' = outcomes + 1
    /\ UNCHANGED <<next_id, rotation_index, sweep, rot>>

\* add_proxy of manager m up to the return of "existing = await
\* crud.get_proxy_by_host_port": an existing row is returned at once
AddLookup(m, proxy_str) ==
    /\ sess.of[m].pc = "idle"
    /\ sess.calls < MaxCalls
    /\ LET parsed == ParseOf[proxy_str]
           existing == get_proxy_by_host_port(store, parsed.host, parsed.port)
       IN  /\ parsed.error = NoError
           /\ IF existing # {}
              THEN LET id == CHOOSE i \in existing : TRUE IN
                   /\ sess' = [sess EXCEPT
                                 !.calls = @ + 1,
                                 !.of[m] = [IdleSession EXCEPT
                                              !.op = "add",
                                              !.proxy_str = proxy_str,
                                              !.ret = id]]
                   /\ last' = AddDone(proxy_str, id, NoError)
              ELSE /\ sess' = [sess EXCEPT
                                 !.calls = @ + 1,
                                 !.of[m] = [IdleSession EXCEPT
                                              !.pc = "creating",
                                              !.op = "add",
                                              !.proxy_str = proxy_str]]
                   /\ UNCHANGED last
    /\ UNCHANGED <<store, next_id, rotation_index, outcomes, sweep, rot>>

\* "proxy = await crud.create_proxy(...)": the INSERT at the commit; on a
\* row with that (host, port) the unique index idx_proxy_host_port raises
\* IntegrityError, create_proxy rolls back and raises DuplicateRecordError,
\* which add_proxy raises as ProxyException
AddCreate(m) ==
    /\ sess.of[m].pc = "creating"
    /\ LET proxy_str == sess.of[m].proxy_str
           parsed == ParseOf[proxy_str]
       IN  IF get_proxy_by_host_port(store, parsed.host, parsed.port) # {}
           THEN /\ sess' = [sess EXCEPT
                              !.of[m] = [IdleSession EXCEPT
                                           !.op = "add",
                                           !.proxy_str = proxy_str,
                                           !.err = "ProxyException"]]
                /\ last' = AddDone(proxy_str, 0, "ProxyException")
                /\ UNCHANGED <<store, next_id>>
           ELSE /\ next_id <= MaxId
                /\ store' = create_proxy(store, next_id, parsed.host,
                                         parsed.port, parsed.username,
                                         EncryptedOrNone(parsed.password))
                /\ next_id' = next_id + 1
                /\ sess' = [sess EXCEPT
                              !.of[m] = [IdleSession EXCEPT
                                           !.op = "add",
                                           !.proxy_str = proxy_str,
                                           !.ret = next_id]]
                /\ last' = AddDone(proxy_str, next_id, NoError)
    /\ UNCHANGED <<rotation_index, outcomes, sweep, rot>>

MarkLoad ==
    \E m \in Managers : \E id \in AnyId : \E success \in BOOLEAN :
       StatsLoad(m, id, success)
MarkCommit == \E m \in Managers : StatsCommit(m)
AddBegin == \E m \in Managers : \E h \in Hosts : AddLookup(m, HostPort(h))
AddCommit == \E m \in Managers : AddCreate(m)

NextSessions ==
    \/ MarkLoad
    \/ MarkCommit
    \/ AddBegin
    \/ AddCommit

SpecSessions == InitSessions /\ [][NextSessions]_vars

\* ------------------------------------------------------------------ claims
Total(r) == r.success_count + r.fail_count

\* the rows whose outcome the operation that returned last has counted
Folded ==
    IF last.op \in {"test", "markFailure", "markSuccess"}
    THEN {last.id} \cap Ids
    ELSE IF last.op = "testAll"
         THEN Range(list_proxies(store, ListLimit))
         ELSE {}

\* C1: every record that get_next_proxy returns is active in the Store at
\* the moment it is selected; a quarantined proxy is never handed out.
C1_NextReturnsActive ==
    (last.op = "next" /\ last.ret # 0)
      => (last.ret \in Ids /\ store[last.ret].is_active)

\* C1 witness: a proxy was handed out while another one was quarantined
C1_Witness ==
    /\ last.op = "next"
    /\ last.ret \in Ids
    /\ \E j \in Ids : ~store[j].is_active

\* C2: after test, testAll or markFailure has folded an outcome, success or
\* failure, a record with total >= 10, fail_count >= 5 and
\* fail_count / total > 0.5 is left with is_active = false.
C2_FoldedThenQuarantined ==
    (last.op \in {"test", "testAll", "markFailure"})
      => \A i \in Folded :
           (/\ Total(store[i]) >= 10
            /\ store[i].fail_count >= 5
            /\ 2 * store[i].fail_count > Total(store[i]))
             => ~store[i].is_active

\* C3: no step takes a record from active to inactive unless the record then
\* has at least 10 outcomes, at least 5 failures and a failure rate strictly
\* above one half.
C3_NoQuarantineWithoutEvidence ==
    [][\A i \in AnyId :
         (/\ i \in DOMAIN store /\ i \in DOMAIN store'
          /\ store[i].is_active /\ ~store'[i].is_active)
           => /\ Total(store'[i]) >= 10
              /\ store'[i].fail_count >= 5
              /\ 2 * store'[i].fail_count > Total(store'[i])]_vars

\* C3 witness: a failure took an active record to fail 6, success 4 and the
\* record is quarantined
C3_Witness ==
    /\ last.op \in {"test", "testAll", "markFailure"}
    /\ \E i \in Folded :
         /\ store[i].fail_count = 6 /\ store[i].success_count = 4
         /\ ~store[i].is_active
         /\ (last.op = "testAll" \/ last.was_active)

\* C4: when mark_proxy_success(id) returns, the record of id is active and
\* is among the records get_next_proxy selects from, whatever its counters.
C4_MarkSuccessReactivates ==
    (last.op = "markSuccess" /\ last.id \in Ids)
      => /\ store[last.id].is_active
         /\ last.id \in Range(get_active_proxies(store, ActiveLimit))

\* C4 witness: mark_proxy_success returned for a record that was quarantined
C4_Witness ==
    /\ last.op = "markSuccess"
    /\ last.id \in Ids
    /\ ~last.was_active
    /\ store[last.id].fail_count > store[last.id].success_count

\* the probes that have acquired the gate and have not finished
InFlight == {t \in DOMAIN sweep.tasks : sweep.tasks[t].pc = "running"}

\* C5: during a sweep the number of probes that have started and not yet
\* finished never exceeds max_concurrent; the other probes wait for the gate.
C5_BoundedInFlight == Cardinality(InFlight) <= proxy_max_concurrent_tasks

\* C5 witness: the gate is full and a probe is waiting for it
C5_Witness ==
    /\ sweep.pc = "probing"
    /\ Cardinality(InFlight) = proxy_max_concurrent_tasks
    /\ \E t \in DOMAIN sweep.tasks : sweep.tasks[t].pc = "queued"

\* the ids the results of the sweep carry
ResultIds == {sweep.results[k].proxy_id : k \in DOMAIN sweep.results}

\* C6: a sweep returns exactly one result per record that was in the Store
\* when it listed the Store, each with that record's id: none skipped, none
\* reported twice.
C6_OneResultPerRecord ==
    (last.op = "testAll" /\ sweep.pc = "idle")
      => /\ ResultIds = sweep.listed
         /\ Len(sweep.results) = Cardinality(sweep.listed)

\* C7: a probe of a sweep whose attempts all fail in the network or time out
\* ends as a result with success = false whose error reports the cause: the
\* message of one of its failed attempts, the timeout for a timed-out probe.
C7_FailureReportsCause ==
    \A t \in DOMAIN sweep.tasks :
       (/\ sweep.tasks[t].pc = "done"
        /\ \A e \in DOMAIN sweep.tasks[t].tried :
              sweep.tasks[t].tried[e] \in {"timeout", "connect"})
         => /\ ~sweep.tasks[t].result[1].success
            /\ sweep.tasks[t].result[1].error_message
                 \in {AttemptError(sweep.tasks[t].tried[e]) :
                        e \in DOMAIN sweep.tasks[t].tried}

\* the number of active proxies since the active set last changed
K == Len(rot.order0)

\* C8: the read-and-increment of the rotation index is atomic: the calls
\* made since the active set last changed used consecutive cursor values
\* (mod k), the index has advanced by one per call, and while the rotation
\* order is unchanged they returned consecutive positions of it.
C8_AtomicCursor ==
    /\ \A j \in 1 .. (Len(rot.picks) - 1) :
          rot.picks[j + 1].idx = (rot.picks[j].idx + 1) % K
    /\ rot.picks # <<>>
         => rotation_index = (rot.picks[1].idx + Len(rot.picks)) % K
    /\ rot.stable
         => \A j \in DOMAIN rot.picks :
               rot.picks[j].id
                 = rot.order0[((rot.picks[1].idx + j - 1) % K) + 1]

\* C8 witness: two calls have returned, one of them overtaken by the other
\* between its query and its selection
C8_Witness ==
    /\ Len(rot.picks) >= 2
    /\ \E j \in DOMAIN rot.picks : rot.picks[j].seen # rot.picks[j].idx

\* how often id was returned since the active set last changed
Visits(id) == Cardinality({j \in DOMAIN rot.picks : rot.picks[j].id = id})

\* C9: over N calls on the same k active proxies, whose counters and
\* latencies may change in between, each proxy is returned at least
\* floor(N / k) times.
C9_EachVisitedFloor ==
    \A i \in ActiveIds(store) : Visits(i) >= Len(rot.picks) \div K

\* C10: the record get_next_proxy returns is the one at position
\* (number of previous successful calls) mod (active count) of the active
\* records in id order.
C10_PositionByCallCount ==
    (last.op = "next" /\ last.ret # 0)
      => last.ret = SeqOfSet(ActiveIds(store))
                      [((rot.calls - 1) % Cardinality(ActiveIds(store))) + 1]

\* C11 as stated: when no record is active, get_next_proxy signals
\* EmptyPoolError to its caller instead of returning a value.
C11_EmptyPoolSignalsError ==
    (last.op = "next" /\ \A i \in Ids : ~store[i].is_active)
      => last.err = "EmptyPoolError"

\* C11 amended: when no record is active, get_next_proxy raises nothing and
\* returns None; once exactly one record is active again, through
\* mark_proxy_success or add_proxy, the next call returns that record.
C11_EmptyPoolReturnsNone ==
    [][last'.op = "next"
         => /\ last'.err = NoError
            /\ (\A i \in Ids : ~store[i].is_active) => last'.ret = 0
            /\ \A i \in Ids :
                 (store[i].is_active
                    /\ \A j \in Ids \ {i} : ~store[j].is_active)
                   => last'.ret = i]_vars

\* C11 witness: get_next_proxy has returned a record that is active with
\* success 4 and fail 7: counters at which a failure quarantines, so the
\* record was quarantined (leaving the pool empty or not) and then
\* reactivated by mark_proxy_success.
C11_Witness ==
    /\ last.op = "next"
    /\ last.ret \in Ids
    /\ store[last.ret].is_active
    /\ store[last.ret].success_count = 4
    /\ store[last.ret].fail_count = 7
    /\ \A j \in Ids \ {last.ret} : ~store[j].is_active

\* C12: probing never reactivates: no test_proxy or test_all_proxies step
\* takes a record from is_active = false to true, even when the probe of a
\* quarantined proxy succeeds; a step that does is mark_proxy_success of
\* that record.
C12_ProbeNeverReactivates ==
    [][\A i \in AnyId :
         (/\ i \in DOMAIN store /\ i \in DOMAIN store'
          /\ ~store[i].is_active /\ store'[i].is_active)
           => (last'.op = "markSuccess" /\ last'.id = i)]_vars

\* C12 witness: the probe of a quarantined proxy succeeded, its success is
\* counted and the record is still quarantined
C12_Witness ==
    /\ last.op = "test"
    /\ last.ret = 1
    /\ last.id \in Ids
    /\ ~last.was_active
    /\ ~store[last.id].is_active
    /\ store[last.id].success_count = 4
    /\ store[last.id].fail_count = 7

\* the attempts of probe t of the sweep, in the order they were made
Tried(t) == sweep.tasks[t].tried

\* C13 as stated: within one probe the next endpoint is attempted only
\* after a network-layer error or timeout on the current one; an endpoint
\* answering with another HTTP status ends the probe, no later endpoint is
\* attempted.
C13_StatusEndsProbe ==
    \A t \in DOMAIN sweep.tasks :
       \A e \in 1 .. (Len(Tried(t)) - 1) :
          Tried(t)[e] \in {"timeout", "connect", "client"}

\* C13 amended: the next endpoint is attempted after every failed attempt,
\* a network-layer error, a timeout or an HTTP status other than 200 alike;
\* a probe ends before the last endpoint only on HTTP 200.
C13_AnyFailureFallsBack ==
    \A t \in DOMAIN sweep.tasks :
       /\ \A e \in 1 .. (Len(Tried(t)) - 1) : Tried(t)[e] # "ok"
       /\ sweep.tasks[t].pc = "running" => Len(Tried(t)) < NumEndpoints
       /\ sweep.tasks[t].pc = "done"
            => \/ Len(Tried(t)) = NumEndpoints
               \/ Tried(t)[Len(Tried(t))] = "ok"
       /\ (Tried(t) # <<>> /\ Tried(t)[Len(Tried(t))] # "ok"
             /\ Len(Tried(t)) < NumEndpoints)
            => sweep.tasks[t].pc = "running"

\* C13 witness: a probe whose first endpoint answered with another HTTP
\* status has gone on to the second endpoint
C13_Witness ==
    \E t \in DOMAIN sweep.tasks :
       /\ Len(Tried(t)) >= 2
       /\ Tried(t)[1] = "http"

\* C14: a probe attempts the endpoints in list order, at most one attempt
\* per endpoint (attempt e is made on endpoint e, at most NumEndpoints
\* attempts), stops at the first endpoint that returns HTTP 200 and reports
\* success with that endpoint as the endpoint used; it reports failure only
\* after every endpoint has failed.
C14_OrderedBoundedFallback ==
    \A t \in DOMAIN sweep.tasks :
       /\ Len(Tried(t)) <= NumEndpoints
       /\ sweep.tasks[t].pc = "done"
            => LET r == sweep.tasks[t].result[1]
                   n == Len(Tried(t))
               IN  /\ r.success <=> Tried(t)[n] = "ok"
                   /\ r.success
                        => /\ r.endpoint = n
                           /\ \A e \in 1 .. (n - 1) : Tried(t)[e] # "ok"
                   /\ ~r.success
                        => /\ n = NumEndpoints
                           /\ \A e \in 1 .. n : Tried(t)[e] # "ok"

\* C14 witness: a probe failed on its first two endpoints and succeeded on
\* the third
C14_Witness ==
    \E t \in DOMAIN sweep.tasks :
       /\ sweep.tasks[t].pc = "done"
       /\ Len(Tried(t)) = NumEndpoints
       /\ sweep.tasks[t].result[1].success
       /\ sweep.tasks[t].result[1].endpoint = NumEndpoints

\* what add_proxy made of the string it was last called with
Given == ParseOf[last.proxy_str]

\* C15: add_proxy is idempotent per (host, port): called with a (host,
\* port) that a record already holds, with the same or other credentials,
\* it returns the id of that record, creates no record and leaves every
\* field of every record unchanged; the record it returns an id of always
\* holds the (host, port) it was called with.
C15_AddIdempotent ==
    [][last'.op = "add"
         => /\ \A i \in Ids :
                 (/\ last'.err = NoError
                  /\ store[i].host = ParseOf[last'.proxy_str].host
                  /\ store[i].port = ParseOf[last'.proxy_str].port)
                   => (last'.ret = i /\ store' = store)
            /\ last'.ret # 0
                 => /\ last'.ret \in DOMAIN store'
                    /\ store'[last'.ret].host = ParseOf[last'.proxy_str].host
                    /\ store'[last'.ret].port = ParseOf[last'.proxy_str].port]_vars

\* C15 witness: add_proxy was called with the (host, port) of a quarantined
\* record with a history, and with another password than the record's
C15_Witness ==
    /\ last.op = "add"
    /\ last.ret \in Ids
    /\ Given.password = <<"q">>
    /\ store[last.ret].password_encrypted = encrypt(<<"p">>)
    /\ store[last.ret].fail_count = 6
    /\ ~store[last.ret].is_active

\* the documented format "HOST:PORT[:USER:PASSWORD]": exactly two or exactly
\* four colon-separated fields, a non-empty host, an integer port in
\* 1 .. 65535
WellFormed(s) ==
    LET parts == split(s) IN
    /\ Len(parts) \in {2, 4}
    /\ strip(parts[1]) # <<>>
    /\ IsInteger(strip(parts[2]))
    /\ int(strip(parts[2])) >= 1
    /\ int(strip(parts[2])) <= 65535

\* C16: add_proxy creates a record only for a string of exactly 2 or exactly
\* 4 colon-separated fields with a non-empty host and an integer port in
\* 1 .. 65535; for every other string (1, 3, 5 or more fields, empty host,
\* port not an integer or out of range) it raises InvalidProxyFormat and
\* leaves the Store unchanged.
C16_OnlyWellFormedCreates ==
    [][last'.op = "add"
         => IF WellFormed(last'.proxy_str)
            THEN last'.err = NoError
            ELSE last'.err = "InvalidProxyFormat" /\ store' = store]_vars

\* the k-th colon-separated field of a string, without surrounding blanks
Field(s, k) == strip(split(s)[k])

\* a valid HOST:PORT:USER:PASS string: well-formed, four fields, a username
\* and a password
WithCredentials(s) ==
    /\ WellFormed(s)
    /\ Len(split(s)) = 4
    /\ Field(s, 3) # <<>>
    /\ Field(s, 4) # <<>>

\* C17 as stated: add_proxy of a valid HOST:PORT:USER:PASS string on a fresh
\* Store returns host, port and username equal to the input, and the
\* plaintext password is neither in the stored record nor in the value
\* returned, which so does not tell which password was given.
C17_PasswordNotReturned ==
    [][(store = <<>> /\ last'.op = "add" /\ WithCredentials(last'.proxy_str))
         => LET s == last'.proxy_str
                config == proxy_to_config(store', last'.ret)
            IN  /\ last'.err = NoError
                /\ config.host = Field(s, 1)
                /\ config.port = int(Field(s, 2))
                /\ config.username = Field(s, 3)
                /\ store'[last'.ret].password_encrypted # Field(s, 4)
                /\ config.password # Field(s, 4)]_vars

\* C17 amended: add_proxy of a valid HOST:PORT:USER:PASS string on a fresh
\* Store returns host, port and username equal to the input; the stored
\* record holds the password encrypted, no character of the plaintext; the
\* value returned carries the decrypted password, equal to the input's.
C17_PasswordStoredEncrypted ==
    [][(store = <<>> /\ last'.op = "add" /\ WithCredentials(last'.proxy_str))
         => LET s == last'.proxy_str
                config == proxy_to_config(store', last'.ret)
                stored == store'[last'.ret]
            IN  /\ last'.err = NoError
                /\ config.host = Field(s, 1)
                /\ config.port = int(Field(s, 2))
                /\ config.username = Field(s, 3)
                /\ stored.username = Field(s, 3)
                /\ stored.password_encrypted # Field(s, 4)
                /\ Range(stored.password_encrypted) \cap Range(Field(s, 4))
                     = {}
                /\ config.password = Field(s, 4)]_vars

\* C17 witness: the first add_proxy on an empty Store was given blanks
\* around host and port, the username u and the password q
C17_Witness ==
    /\ last.op = "add"
    /\ last.ret = 1
    /\ Ids = {1}
    /\ last.proxy_str = <<" ", "h", ":", "1", " ", ":", "u", ":", "q">>
    /\ store[1].success_count = 0
    /\ store[1].username = <<"u">>
    /\ store[1].password_encrypted # None

\* C18: in every reachable state every record has a username if and only if
\* it has an encrypted password, and a port in 1 .. 65535, whatever strings
\* add_proxy has accepted, those with an empty or blank username or password
\* field included.
C18_CredentialsPaired ==
    \A i \in Ids :
       /\ (store[i].username # None) <=> (store[i].password_encrypted # None)
       /\ store[i].port >= 1
       /\ store[i].port <= 65535

\* by how much a step has raised the two counters of record i
SuccessDelta(i) == store'[i].success_count - store[i].success_count
FailDelta(i) == store'[i].fail_count - store[i].fail_count

\* C19: success_count and fail_count of every record are non-negative and
\* never decrease: each recorded outcome (a probe folded by test_proxy or
\* test_all_proxies, a mark_proxy_success, a mark_proxy_failure) raises
\* exactly one of the two by exactly 1, success_count for a success and
\* fail_count for a failure; no other operation changes them.
C19_CountersCountOutcomes ==
    [][LET listed == Range(list_proxies(store, ListLimit)) IN
       \A i \in AnyId :
            (i \in DOMAIN store /\ i \in DOMAIN store')
              => /\ store[i].success_count >= 0 /\ store[i].fail_count >= 0
                 /\ SuccessDelta(i) >= 0 /\ FailDelta(i) >= 0
                 /\ SuccessDelta(i) + FailDelta(i)
                      = IF \/ /\ last'.op \in {"test", "markSuccess",
                                               "markFailure"}
                              /\ last'.id = i
                           \/ /\ last'.op = "testAll"
                              /\ i \in listed
                        THEN 1 ELSE 0
                 /\ (last'.op = "markSuccess" \/ (last'.op = "test"
                                                   /\ last'.ret = 1))
                      => FailDelta(i) = 0
                 /\ (last'.op = "markFailure" \/ (last'.op = "test"
                                                   /\ last'.ret = 0))
                      => SuccessDelta(i) = 0]_vars

\* C19 witness: a successful probe folded by test_proxy has taken a record
\* from success 4, fail 5 to success 5, fail 5
C19_Witness ==
    /\ last.op = "test"
    /\ last.ret = 1
    /\ last.id \in Ids
    /\ store[last.id].success_count = 5
    /\ store[last.id].fail_count = 5
    /\ outcomes = 1

\* C20: the health system never deletes: a record leaves the Store only in
\* a remove_proxy step (test_proxy, test_all_proxies, mark_proxy_success,
\* mark_proxy_failure and get_next_proxy remove none), and a record that is
\* quarantined stays with its counters, the failure counted; remove_proxy
\* returns true and deletes exactly the record of its id when it exists,
\* and returns false leaving the Store unchanged when it does not.
C20_OnlyRemoveDeletes ==
    [][/\ (\E i \in DOMAIN store : i \notin DOMAIN store')
            => last'.op = "remove"
       /\ \A i \in DOMAIN store :
            (i \in DOMAIN store' /\ store[i].is_active
               /\ ~store'[i].is_active)
              => /\ store'[i].success_count = store[i].success_count
                 /\ store'[i].fail_count = store[i].fail_count + 1
       /\ last'.op = "remove"
            => IF last'.id \in DOMAIN store
               THEN /\ last'.ret = 1
                    /\ DOMAIN store' = DOMAIN store \ {last'.id}
                    /\ \A j \in DOMAIN store' : store'[j] = store[j]
               ELSE /\ last'.ret = 0
                    /\ store' = store]_vars

\* C20 witness: remove_proxy has returned true for a quarantined record,
\* which is gone, and another record is still in the Store
C20_Witness ==
    /\ last.op = "remove"
    /\ last.ret = 1
    /\ ~last.was_active
    /\ last.id \notin Ids
    /\ Ids # {}
    /\ outcomes >= 1

\* the result of the k-th listed proxy of the cancelled sweep is counted
Counted(j) == j < sweep.k \/ (j = sweep.k /\ sweep.counted)

\* C21: when test_all_proxies is cancelled, each probe's effect on its
\* record is all or nothing: the record of a probe that was abandoned is as
\* it was when the sweep listed it, and a record whose failure was counted
\* has had the failure policy applied (at 10 outcomes, 5 failures and a rate
\* above one half it is quarantined).
C21_CancelAllOrNothing ==
    sweep.pc = "cancelled"
      => \A j \in DOMAIN sweep.proxies :
            LET id == sweep.proxies[j] IN
            id \in Ids
              => /\ ~Counted(j) => store[id] = sweep.before[id]
                 /\ (Counted(j) /\ ~sweep.results[j].success)
                      => ((/\ Total(store[id]) >= 10
                           /\ store[id].fail_count >= 5
                           /\ 2 * store[id].fail_count > Total(store[id]))
                            => ~store[id].is_active)

\* the operations that take the id of a record and do not remove it
ById == {"test", "stats", "markSuccess", "markFailure"}

\* C22 as stated: test(id), stats(id), markSuccess(id) and markFailure(id)
\* called with an id that is not in the Store signal RecordNotFoundError to
\* the caller and leave the Store and the rotation cursor unchanged.
C22_UnknownIdSignalsNotFound ==
    [][(last'.op \in ById /\ last'.id \notin DOMAIN store)
         => /\ last'.err = "RecordNotFoundError"
            /\ store' = store
            /\ rotation_index' = rotation_index]_vars

\* C22 as the code has it: with an id that is not in the Store, test(id)
\* and stats(id) signal RecordNotFoundError, markSuccess(id) and
\* markFailure(id) signal nothing and return normally; all four leave the
\* Store and the rotation cursor unchanged.
C22_UnknownIdLeavesStore ==
    [][(last'.op \in ById /\ last'.id \notin DOMAIN store)
         => /\ last'.err = IF last'.op \in {"test", "stats"}
                           THEN "RecordNotFoundError"
                           ELSE NoError
            /\ store' = store
            /\ rotation_index' = rotation_index]_vars

\* C22 witness: markFailure has returned normally for an id that is not in
\* a Store that holds other records
C22_Witness ==
    /\ last.op = "markFailure"
    /\ last.id \notin Ids
    /\ last.err = NoError
    /\ store # <<>>

\* the results the probes of the sweep have returned so far
Returned ==
    Range(sweep.results)
      \cup {sweep.tasks[t].result[1] :
              t \in {u \in DOMAIN sweep.tasks : sweep.tasks[u].pc = "done"}}

\* C23: every result a probe returns has latency_ms present if and only if
\* success is true, and error_message present if and only if success is
\* false.
C23_LatencyIffSuccess ==
    \A r \in Returned :
       /\ (r.latency_ms # Null) <=> r.success
       /\ (r.error_message # NoError) <=> ~r.success

\* C23 witness: a sweep has gathered a successful result with its latency
\* and a failed result without one
C23_Witness ==
    /\ sweep.pc = "folding"
    /\ \E j, k \in DOMAIN sweep.results :
          /\ sweep.results[j].success
          /\ sweep.results[j].latency_ms \in Latencies
          /\ ~sweep.results[k].success
          /\ sweep.results[k].latency_ms = Null

\* C24: max_failure_threshold is the largest number of consecutive failures
\* a proxy survives: a record whose most recent 5 recorded outcomes are all
\* failures (here: it has 5 or more outcomes recorded and no success) is
\* left with is_active = false.
C24_FiveFailuresQuarantine ==
    \A id \in Ids :
       (store[id].success_count = 0
          /\ store[id].fail_count >= max_failure_threshold)
         => ~store[id].is_active

\* the counters of row r satisfy the quarantine condition
Condemned(r) ==
    /\ Total(r) >= MinSampleSize
    /\ r.fail_count >= max_failure_threshold
    /\ 2 * r.fail_count > Total(r)

\* C25: the quarantine decision is taken on counters that include the
\* outcome just recorded: a call that records a failure and brings the
\* counters to the quarantine condition (success 4, fail 5 getting one more
\* failure: total 10, fail 6) leaves the record quarantined itself.
C25_DecisionIncludesOutcome ==
    [][\A id \in DOMAIN store \cap DOMAIN store' :
          (store'[id].fail_count = store[id].fail_count + 1
             /\ Condemned(store'[id]))
            => ~store'[id].is_active]_vars

\* C25 witness: the record at success 4, fail 5 was active when a call
\* recorded its tenth outcome, a failure, and is quarantined on return
C25_Witness ==
    /\ last.op \in {"test", "markFailure"}
    /\ last.id \in Ids
    /\ last.was_active
    /\ store[last.id].success_count = 4
    /\ store[last.id].fail_count = 6
    /\ ~store[last.id].is_active

\* C28: markSuccess does not reset the counters: a record it reactivates
\* while its counters still satisfy the quarantine condition stays active
\* through the operations that record no failure for it, and the first later
\* failure recorded for it quarantines it again in that same call.
C28_ReactivatedUntilNextFailure ==
    [][\A id \in DOMAIN store \cap DOMAIN store' :
          (store[id].is_active /\ Condemned(store[id]))
            => /\ store'[id].fail_count = store[id].fail_count
                    => store'[id].is_active
               /\ store'[id].fail_count > store[id].fail_count
                    => ~store'[id].is_active]_vars

\* C28 witness: the quarantined record at success 3, fail 7 has been
\* reactivated by markSuccess (success 4, fail 7), and the next outcome
\* recorded for it, a failure, has quarantined it again
C28_Witness ==
    /\ last.op \in {"test", "markFailure"}
    /\ last.id \in Ids
    /\ last.was_active
    /\ store[last.id].success_count = 4
    /\ store[last.id].fail_count = 8
    /\ ~store[last.id].is_active

\* C26: no recorded outcome is lost under interleaving: once the calls that
\* recorded n successes and m failures for a record, through whichever
\* managers, have all returned, its success_count has grown by exactly n and
\* its fail_count by exactly m.
C26_NoOutcomeLost ==
    AllIdle
      => \A id \in Ids :
            /\ store[id].success_count = sess.recorded[id].success_count
            /\ store[id].fail_count = sess.recorded[id].fail_count

\* C27: two concurrent add() calls for the same new (host, port) both return
\* the same record id and neither raises; the Store ends with exactly one
\* record for that pair.
C27_ConcurrentAddSameRecord ==
    \A m, n \in Managers :
       (/\ sess.of[m].pc = "idle" /\ sess.of[m].op = "add"
        /\ sess.of[n].pc = "idle" /\ sess.of[n].op = "add"
        /\ sess.of[m].proxy_str = sess.of[n].proxy_str)
         => /\ sess.of[m].err = NoError
            /\ sess.of[n].err = NoError
            /\ sess.of[m].ret = sess.of[n].ret
            /\ Cardinality(get_proxy_by_host_port(
                             store, ParseOf[sess.of[m].proxy_str].host,
                             ParseOf[sess.of[m].proxy_str].port)) = 1

\* C29: a record removed after the sweep listed the Store and before its
\* result is folded is contained: the sweep raises nothing, returns one
\* result per listed record in list order, and folds the results of the
\* records that are still there (one outcome more than when listed).
C29_RemovalContained ==
    (sweep.pc = "idle" /\ last.op = "testAll" /\ sweep.proxies # <<>>)
      => /\ last.err = NoError
         /\ Len(sweep.results) = Len(sweep.proxies)
         /\ \A k \in DOMAIN sweep.proxies :
               LET id == sweep.proxies[k]
                   r == sweep.results[k]
               IN  /\ r.proxy_id = id
                   /\ id \in Ids
                        => /\ store[id].success_count
                                = sweep.before[id].success_count
                                    + (IF r.success THEN 1 ELSE 0)
                           /\ store[id].fail_count
                                = sweep.before[id].fail_count
                                    + (IF r.success THEN 0 ELSE 1)

\* C29 witness: a sweep of two records has returned after one of them was
\* removed; the result of the other is folded
C29_Witness ==
    /\ sweep.pc = "idle"
    /\ last.op = "testAll"
    /\ Len(sweep.results) = 2
    /\ \E j, k \in DOMAIN sweep.proxies :
          /\ sweep.proxies[j] \notin Ids
          /\ sweep.proxies[k] \in Ids
          /\ Total(store[sweep.proxies[k]]) = 1

\* C30: a sweep terminates: once it has listed a Store that is not empty,
\* every queued probe gets the gate, every permit is given back, also by the
\* probes that fail, and the sweep returns one result per listed record
\* without raising, unless its caller cancels it; a sweep that lists an
\* empty Store has returned no result and probed nothing.
C30_SweepTerminates ==
    /\ (sweep.pc = "probing")
         ~> \/ /\ sweep.pc = "idle"
               /\ last.op = "testAll"
               /\ last.err = NoError
               /\ sweep.permits = proxy_max_concurrent_tasks
               /\ Len(sweep.results) = Len(sweep.proxies)
            \/ sweep.pc = "cancelled"
    /\ []((store = <<>> /\ last.op = "testAll")
            => /\ sweep.pc = "idle"
               /\ last.err = NoError
               /\ sweep.results = <<>>
               /\ sweep.tasks = <<>>
               /\ outcomes = 0)

\* C30 witness: a sweep of two records has returned with every permit back
\* after both probes failed on every endpoint
C30_Witness ==
    /\ sweep.pc = "idle"
    /\ last.op = "testAll"
    /\ sweep.permits = proxy_max_concurrent_tasks
    /\ Len(sweep.results) = 2
    /\ \A k \in DOMAIN sweep.results : ~sweep.results[k].success

====
